---- MODULE Spec2Model ----
(***************************************************************************)
(* The snippet API of the tutorial, stages 3 to 6: the snippet and user    *)
(* stores, and one action per routed view.  A request is handled as the    *)
(* generic views handle it: view-level permissions, then the method        *)
(* table, then the record lookup, the object-level permissions, the        *)
(* serializer's validation and the save.                                   *)
(***************************************************************************)
EXTENDS Integers, Sequences, FiniteSets, TLC

\* Identifiers the auto-increment sequence may hand out in one behaviour.
MaxId == 2

VARIABLES
    stage,      \* which stage's urls.py / views.py / serializers.py is deployed
    users,      \* the stored User rows
    snippets,   \* the stored Snippet rows
    nextId,     \* the snippet table's auto-increment sequence
    now,        \* the clock read by created (auto-set at creation)
    request,    \* the request handled last
    response,   \* its response
    before,     \* the two stores as they were when that request arrived
    inflight    \* updates a second worker has looked up and not yet saved

vars == <<stage, users, snippets, nextId, now, request, response, before,
          inflight>>

Stages == {3, 4, 5, 6}

None == "None"
AnonymousUser == "AnonymousUser"
AllUsers == {"u1", "u2"}

\* auth.User: primary key and username of the accounts the tests create.
user_pk(u) == IF u = "u1" THEN 1 ELSE 2
username(u) == IF u = "u1" THEN "user1" ELSE "user2"

Methods == {"GET", "POST", "PUT", "PATCH", "DELETE"}
SAFE_METHODS == {"GET", "HEAD", "OPTIONS"}

LANGUAGE_CHOICES == {"python", "javascript"}
STYLE_CHOICES == {"friendly", "monokai"}

\* settings.REST_FRAMEWORK["PAGE_SIZE"] of the stages whose lists are paginated
\* (the settings module is not among the sources; the listings of this model
\* stay below it, so every listing is a single page).
PAGE_SIZE == 10

-----------------------------------------------------------------------------
(* Request payloads *)

\* An empty body.
NoData == <<>>
FullData ==
    [title |-> "T", code |-> "c2", linenos |-> TRUE,
     language |-> "javascript", style |-> "monokai"]
MinimalData == [code |-> "c1"]
OwnerData == [code |-> "c1", owner |-> "user2"]
BadChoiceData == [code |-> "c1", language |-> "klingon"]

\* A payload that tries to set the derived field.
HighlightedData == [code |-> "c1", highlighted |-> "<b>mine</b>"]
Payloads == {NoData, FullData, MinimalData, OwnerData, BadChoiceData,
             HighlightedData}

-----------------------------------------------------------------------------
(* models.Snippet *)

\* The rendering stored in highlighted: a function of code, language, style.
Highlight(code, language, style) == <<"html", code, language, style>>

\* Field defaults of a new Snippet row (a text column left out is stored empty).
SnippetDefaults ==
    [title |-> "", code |-> "", linenos |-> FALSE, language |-> "python",
     style |-> "friendly"]

\* Snippet.save(): highlighted is rendered from the row's current fields
\* (the field exists from the authentication stage on).
SnippetSave(row) ==
    [row EXCEPT !.highlighted =
        IF stage >= 4 THEN Highlight(row.code, row.language, row.style) ELSE <<>>]

RECURSIVE OrderByCreated(_)
\* Meta.ordering = ["created"]: the rows of a queryset, oldest first.
OrderByCreated(rows) ==
    IF rows = {} THEN <<>>
    ELSE LET first == CHOOSE r \in rows : \A o \in rows : r.created <= o.created
         IN  <<first>> \o OrderByCreated(rows \ {first})

RECURSIVE OrderById(_)
\* order_by("id") on the user queryset.
OrderById(us) ==
    IF us = {} THEN <<>>
    ELSE LET first == CHOOSE u \in us : \A o \in us : user_pk(u) <= user_pk(o)
         IN  <<first>> \o OrderById(us \ {first})

\* The queryset ordered by title instead of the model's default ordering.
SnippetQueryset_byTitle ==
    LET RECURSIVE ByTitle(_)
        ByTitle(rows) ==
            IF rows = {} THEN <<>>
            ELSE LET first == CHOOSE r \in rows : \A o \in rows :
                                  \/ r.title # "" \/ o.title = ""
                 IN  <<first>> \o ByTitle(rows \ {first})
    IN  ByTitle(snippets)

\* Snippet.objects.all()
SnippetQueryset == OrderByCreated(snippets)

\* The relation read as every stored snippet.
UserSnippets_all(u) == OrderByCreated(snippets)

\* user.snippets.all(): the reverse side of the owner foreign key.
UserSnippets(u) == OrderByCreated({s \in snippets : s.owner = u})

-----------------------------------------------------------------------------
(* permissions *)

\* IsAuthenticated in its place: reads need a login too.
IsAuthenticated(method, user) == user # AnonymousUser

\* rest_framework.permissions.IsAuthenticatedOrReadOnly.has_permission
IsAuthenticatedOrReadOnly(method, user) ==
    method \in SAFE_METHODS \/ user # AnonymousUser

\* The owner comparison left out: any authenticated user may write.
has_object_permission_anyAuthenticated(method, user, obj) ==
    IF method \in SAFE_METHODS THEN TRUE
    ELSE user # AnonymousUser

\* The safe-method branch left out: only the owner may even read.
has_object_permission_ownerOnly(method, user, obj) ==
    obj.owner = user

\* Only GET counted as a safe method.
has_object_permission_getOnly(method, user, obj) ==
    IF method = "GET" THEN TRUE
    ELSE obj.owner = user

\* A snippet without an owner treated as anybody's.
has_object_permission_ownerlessOpen(method, user, obj) ==
    IF method \in SAFE_METHODS THEN TRUE
    ELSE obj.owner = None \/ obj.owner = user

\* The comparison inverted.
has_object_permission_inverted(method, user, obj) ==
    IF method \in SAFE_METHODS THEN TRUE
    ELSE obj.owner # user

\* IsOwnerOrReadOnly.has_object_permission
has_object_permission(method, user, obj) ==
    IF method \in SAFE_METHODS THEN TRUE
    ELSE obj.owner = user

\* IsAuthenticatedOrReadOnly left off the views.
permission_classes_ownerOnly(view) ==
    IF stage >= 4 /\ view = "snippet-detail" THEN {"IsOwnerOrReadOnly"} ELSE {}

\* The viewset listing IsOwnerOrReadOnly alone.
permission_classes_viewsetOwnerOnly(view) ==
    IF stage = 3 THEN {}
    ELSE IF stage = 6 THEN
        IF view \in {"snippet-list", "snippet-detail", "snippet-highlight"}
        THEN {"IsOwnerOrReadOnly"} ELSE {}
    ELSE IF view = "snippet-list" THEN {"IsAuthenticatedOrReadOnly"}
    ELSE IF view = "snippet-detail" THEN
        {"IsAuthenticatedOrReadOnly", "IsOwnerOrReadOnly"}
    ELSE {}

\* permission_classes of each view, by stage.
permission_classes(view) ==
    IF stage = 3 THEN {}
    ELSE IF view = "snippet-list" THEN
        IF stage = 6 THEN {"IsAuthenticatedOrReadOnly", "IsOwnerOrReadOnly"}
        ELSE {"IsAuthenticatedOrReadOnly"}
    ELSE IF view = "snippet-detail" THEN
        {"IsAuthenticatedOrReadOnly", "IsOwnerOrReadOnly"}
    ELSE IF view = "snippet-highlight" /\ stage = 6 THEN
        {"IsAuthenticatedOrReadOnly", "IsOwnerOrReadOnly"}
    ELSE {}

\* The view-level check run only once the handler has found the record.
check_permissions_afterLookup(view, method, user) ==
    \/ view = "snippet-detail"
    \/ "IsAuthenticatedOrReadOnly" \in permission_classes(view)
          => IsAuthenticatedOrReadOnly(method, user)

\* APIView.check_permissions: every class's has_permission must allow.
check_permissions(view, method, user) ==
    "IsAuthenticatedOrReadOnly" \in permission_classes(view)
        => IsAuthenticatedOrReadOnly(method, user)

\* APIView.check_object_permissions: every class's has_object_permission.
check_object_permissions(view, method, user, obj) ==
    "IsOwnerOrReadOnly" \in permission_classes(view)
        => has_object_permission(method, user, obj)

-----------------------------------------------------------------------------
(* serializers *)

WritableFields == {"title", "code", "linenos", "language", "style"}

\* SnippetSerializer.to_representation, by stage.
SnippetData(s) ==
    LET base == [id |-> s.id, title |-> s.title, code |-> s.code,
                 linenos |-> s.linenos, language |-> s.language,
                 style |-> s.style]
        owner == IF s.owner = None THEN None ELSE username(s.owner)
    IN  IF stage <= 3 THEN base
        ELSE IF stage = 4 THEN
            [id |-> s.id, title |-> s.title, code |-> s.code,
             linenos |-> s.linenos, language |-> s.language,
             style |-> s.style, owner |-> owner]
        ELSE
            [url |-> <<"snippet-detail", s.id>>, id |-> s.id,
             highlight |-> <<"snippet-highlight", s.id>>, owner |-> owner,
             title |-> s.title, code |-> s.code, linenos |-> s.linenos,
             language |-> s.language, style |-> s.style]

\* UserSerializer.to_representation, by stage.
UserData(u) ==
    IF stage = 4 THEN
        [id |-> user_pk(u), username |-> username(u),
         snippets |-> [i \in 1..Len(UserSnippets(u)) |-> UserSnippets(u)[i].id]]
    ELSE
        [url |-> <<"user-detail", user_pk(u)>>, id |-> user_pk(u),
         username |-> username(u),
         snippets |-> [i \in 1..Len(UserSnippets(u)) |->
                          <<"snippet-detail", UserSnippets(u)[i].id>>]]

\* "code" treated as optional.
SerializerErrors_codeOptional(data, partial) ==
    {f \in {"language", "style"} : f \in DOMAIN data /\ data[f] = "klingon"}

\* SnippetSerializer(queryset, many=True).data
SnippetListData(rows) == [i \in 1..Len(rows) |-> SnippetData(rows[i])]

\* UserSerializer(queryset, many=True).data
UserListData(us) == [i \in 1..Len(us) |-> UserData(us[i])]

\* Serializer.errors after is_valid(): the fields that fail validation.
SerializerErrors(data, partial) ==
    LET bad(f) ==
            IF f = "code" THEN
                IF "code" \in DOMAIN data THEN data.code = "" ELSE ~partial
            ELSE IF f = "language" THEN
                "language" \in DOMAIN data /\ data.language \notin LANGUAGE_CHOICES
            ELSE IF f = "style" THEN
                "style" \in DOMAIN data /\ data.style \notin STYLE_CHOICES
            ELSE FALSE
    IN  {f \in WritableFields : bad(f)}

\* owner declared as a writable field.
validated_data_withOwner(data) ==
    [f \in (DOMAIN data) \cap (WritableFields \cup {"owner"}) |-> data[f]]

\* Only "code" declared in Meta.fields.
validated_data_onlyCode(data) ==
    [f \in (DOMAIN data) \cap {"code"} |-> data[f]]

\* Serializer.validated_data: the writable fields the payload carries;
\* read-only fields (id, owner, url, highlight) are dropped.
validated_data(data) ==
    [f \in (DOMAIN data) \cap WritableFields |-> data[f]]

\* The create giving every row the first id.
SerializerCreate_sameId(vd, owner) ==
    LET field(f) == IF f \in DOMAIN vd THEN vd[f] ELSE SnippetDefaults[f]
    IN  SnippetSave(
            [id |-> 1, title |-> field("title"),
             code |-> field("code"), linenos |-> field("linenos"),
             language |-> field("language"), style |-> field("style"),
             created |-> now, owner |-> owner, highlighted |-> <<>>])

\* ModelSerializer.create(validated_data) with the keyword arguments of save().
SerializerCreate(vd, owner) ==
    LET field(f) == IF f \in DOMAIN vd THEN vd[f] ELSE SnippetDefaults[f]
    IN  SnippetSave(
            [id |-> nextId, title |-> field("title"), code |-> field("code"),
             linenos |-> field("linenos"), language |-> field("language"),
             style |-> field("style"), created |-> now, owner |-> owner,
             highlighted |-> <<>>])

\* The update saves the instance without the validated data.
SerializerUpdate_ignoresData(instance, vd) == SnippetSave(instance)

\* The update sets the attributes and skips the model's save().
SerializerUpdate_noSave(instance, vd) ==
    [f \in DOMAIN instance |-> IF f \in DOMAIN vd THEN vd[f] ELSE instance[f]]

\* An update that flips linenos whenever the data leaves it out.
SerializerUpdate_flipsLinenos(instance, vd) ==
    SnippetSave([f \in DOMAIN instance |->
                    IF f \in DOMAIN vd THEN vd[f]
                    ELSE IF f = "linenos" THEN ~instance[f]
                    ELSE instance[f]])

\* ModelSerializer.update(instance, validated_data)
SerializerUpdate(instance, vd) ==
    SnippetSave([f \in DOMAIN instance |->
                    IF f \in DOMAIN vd THEN vd[f] ELSE instance[f]])

\* The rows built from the payloads taken last to first.
ListSerializerCreate_reversed(vds, owner) ==
    [i \in 1..Len(vds) |->
        [SerializerCreate(vds[Len(vds) + 1 - i], owner)
            EXCEPT !.id = nextId + i - 1, !.created = now + i - 1]]

\* SnippetSerializer(data=..., many=True).save(): the child's create() for
\* each validated payload in turn, each row taking the next id and timestamp.
ListSerializerCreate(vds, owner) ==
    [i \in 1..Len(vds) |->
        [SerializerCreate(vds[i], owner)
            EXCEPT !.id = nextId + i - 1, !.created = now + i - 1]]

\* PageNumberPagination: the first page of a list (stages 5 and 6).
Paginate(items) ==
    IF stage <= 4 THEN items
    ELSE [count |-> Len(items),
          next |-> IF Len(items) > PAGE_SIZE THEN "page=2" ELSE None,
          previous |-> None,
          results |-> SubSeq(items, 1,
                             IF Len(items) > PAGE_SIZE THEN PAGE_SIZE ELSE Len(items))]

-----------------------------------------------------------------------------
(* views *)

\* A response that leaves the stores alone.
Reply(status, data) ==
    [status |-> status, data |-> data, snippets |-> snippets, nextId |-> nextId,
     now |-> now]

\* perform_create not overridden: save() gets no owner.
perform_create_owner_default(user) == None

\* perform_create: the owner handed to serializer.save().
perform_create_owner(user) ==
    IF stage = 3 THEN None ELSE user

\* ListCreateAPIView.get / .post on the snippet queryset.
SnippetList(method, user, data) ==
    IF method = "GET" THEN
        Reply(200, Paginate(SnippetListData(SnippetQueryset)))
    ELSE \* POST
        LET errors == SerializerErrors(data, FALSE) IN
        IF errors # {} THEN Reply(400, [f \in errors |-> "invalid"])
        ELSE LET s == SerializerCreate(validated_data(data), perform_create_owner(user))
             IN  [status |-> 201, data |-> SnippetData(s),
                  snippets |-> snippets \cup {s}, nextId |-> nextId + 1,
                  now |-> now + 1]

\* The lookup ignores the pk of the URL.
get_object_anyRow(pk) == IF snippets = {} THEN {} ELSE {CHOOSE s \in snippets : TRUE}

\* GenericAPIView.get_object: the row with this pk, or the empty set (404).
get_object(pk) == {s \in snippets : s.id = pk}

\* The update saved before the serializer is asked whether it is valid.
SnippetDetail_savesInvalid(method, user, pk, data) ==
    IF get_object(pk) = {} THEN Reply(404, [detail |-> "Not found."])
    ELSE LET obj == CHOOSE s \in get_object(pk) : TRUE IN
    IF ~check_object_permissions("snippet-detail", method, user, obj) THEN
        Reply(403, [detail |-> "Forbidden"])
    ELSE IF method = "GET" THEN Reply(200, SnippetData(obj))
    ELSE IF method = "DELETE" THEN
        [status |-> 204, data |-> None, snippets |-> snippets \ {obj},
         nextId |-> nextId, now |-> now]
    ELSE
        LET errors == SerializerErrors(data, method = "PATCH")
            s == SerializerUpdate(obj, validated_data(data))
        IN  [status |-> IF errors # {} THEN 400 ELSE 200,
             data |-> IF errors # {} THEN [f \in errors |-> "invalid"]
                      ELSE SnippetData(s),
             snippets |-> (snippets \ {obj}) \cup {s}, nextId |-> nextId,
             now |-> now]

\* RetrieveUpdateDestroyAPIView.get / .put / .patch / .delete
SnippetDetail(method, user, pk, data) ==
    IF get_object(pk) = {} THEN Reply(404, [detail |-> "Not found."])
    ELSE LET obj == CHOOSE s \in get_object(pk) : TRUE IN
    IF ~check_object_permissions("snippet-detail", method, user, obj) THEN
        Reply(403, [detail |-> "Forbidden"])
    ELSE IF method = "GET" THEN Reply(200, SnippetData(obj))
    ELSE IF method = "DELETE" THEN
        [status |-> 204, data |-> None, snippets |-> snippets \ {obj},
         nextId |-> nextId, now |-> now]
    ELSE \* PUT, PATCH
        LET errors == SerializerErrors(data, method = "PATCH") IN
        IF errors # {} THEN Reply(400, [f \in errors |-> "invalid"])
        ELSE LET s == SerializerUpdate(obj, validated_data(data))
             IN  [status |-> 200, data |-> SnippetData(s),
                  snippets |-> (snippets \ {obj}) \cup {s}, nextId |-> nextId,
                  now |-> now]

\* SnippetHighlight.get / SnippetViewSet.highlight
SnippetHighlight(method, user, pk) ==
    IF get_object(pk) = {} THEN Reply(404, [detail |-> "Not found."])
    ELSE LET obj == CHOOSE s \in get_object(pk) : TRUE IN
    IF ~check_object_permissions("snippet-highlight", method, user, obj) THEN
        Reply(403, [detail |-> "Forbidden"])
    ELSE Reply(200, obj.highlighted)

\* UserList.get / UserViewSet.list
UserList == Reply(200, Paginate(UserListData(OrderById(users))))

\* UserDetail.get / UserViewSet.retrieve
UserDetail(pk) ==
    IF \E u \in users : user_pk(u) = pk
    THEN Reply(200, UserData(CHOOSE u \in users : user_pk(u) = pk))
    ELSE Reply(404, [detail |-> "Not found."])

\* Every view left on the default JSON renderer.
renderer_classes_default(view) == "application/json"

\* renderer_classes: the content type a view's responses are rendered as.
renderer_classes(view) ==
    IF view = "snippet-highlight" THEN "text/html" ELSE "application/json"

\* The list view given a handler for every method.
allowed_methods_any(view) == Methods

\* The user views built on the writable generic views.
allowed_methods_userWritable(view) ==
    IF view = "snippet-list" THEN {"GET", "POST"}
    ELSE IF view = "snippet-highlight" THEN {"GET"}
    ELSE {"GET", "PUT", "PATCH", "DELETE", "POST"}

\* The methods each view has a handler for.
allowed_methods(view) ==
    IF view = "snippet-list" THEN {"GET", "POST"}
    ELSE IF view = "snippet-detail" THEN {"GET", "PUT", "PATCH", "DELETE"}
    ELSE {"GET"}

\* urls.py / the router: the views routed in each stage.
Views ==
    IF stage = 3 THEN {"snippet-list", "snippet-detail"}
    ELSE IF stage = 4 THEN {"snippet-list", "snippet-detail", "user-list", "user-detail"}
    ELSE {"snippet-list", "snippet-detail", "user-list", "user-detail",
          "snippet-highlight"}

\* APIView.dispatch: initial() checks the view-level permissions, then the
\* handler is looked up by method, then the handler runs.
dispatch(view, method, user, pk, data) ==
    IF ~check_permissions(view, method, user) THEN
        Reply(403, [detail |-> "Forbidden"])
    ELSE IF method \notin allowed_methods(view) THEN
        Reply(405, [detail |-> "Method not allowed."])
    ELSE IF view = "snippet-list" THEN SnippetList(method, user, data)
    ELSE IF view = "snippet-detail" THEN SnippetDetail(method, user, pk, data)
    ELSE IF view = "snippet-highlight" THEN SnippetHighlight(method, user, pk)
    ELSE IF view = "user-list" THEN UserList
    ELSE UserDetail(pk)

-----------------------------------------------------------------------------
(* The state machine *)

\* The worker is idle: no request is being handled.
NoRequest == [view |-> None, method |-> None, user |-> AnonymousUser, pk |-> 0,
              data |-> NoData]
NoResponse == [status |-> 0, data |-> None, content_type |-> None]
NoBefore == [snippets |-> {}, users |-> {}]

Init ==
    /\ stage \in Stages
    /\ users = IF stage = 3 THEN {} ELSE AllUsers
    /\ snippets = {}
    /\ nextId = 1
    /\ now = 1
    /\ request = NoRequest
    /\ response = NoResponse
    /\ before = NoBefore
    /\ inflight = {}

\* The clients that can send a request: any stored account, or nobody.
Requesters == users \cup {AnonymousUser}

\* The pks a detail URL is tried with: every id the sequence can hand out
\* and one it never does.
Pks == 1..(MaxId + 1)

\* The pks a user detail URL is tried with: the accounts' and one more.
UserPks == {1, 2, 3}

\* One request, handled by the worker from arrival to response: the stores
\* take the handler's result and the response is kept until it is sent.
Handle(view, method, user, pk, data) ==
    LET r == dispatch(view, method, user, pk, data) IN
    /\ request = NoRequest
    /\ view \in Views
    /\ r.nextId <= MaxId + 1
    /\ request' = [view |-> view, method |-> method, user |-> user, pk |-> pk,
                   data |-> data]
    /\ response' = [status |-> r.status, data |-> r.data,
                    content_type |-> renderer_classes(view)]
    /\ before' = [snippets |-> snippets, users |-> users]
    /\ snippets' = r.snippets
    /\ nextId' = r.nextId
    /\ now' = r.now
    /\ UNCHANGED <<inflight, stage, users>>

\* The payloads tried on a view: every payload where the view has a handler
\* that parses the body, an empty body elsewhere.
Bodies(view, method) ==
    IF \/ view = "snippet-list" /\ method = "POST"
       \/ view = "snippet-detail" /\ method \in {"PUT", "PATCH"}
    THEN Payloads ELSE {NoData}

SnippetListRequest ==
    \E method \in Methods, user \in Requesters :
        \E data \in Bodies("snippet-list", method) : Handle("snippet-list", method, user, 0, data)

SnippetDetailRequest ==
    \E method \in Methods, user \in Requesters, pk \in Pks :
        \E data \in Bodies("snippet-detail", method) : Handle("snippet-detail", method, user, pk, data)

SnippetHighlightRequest ==
    \E method \in Methods, user \in Requesters, pk \in Pks :
        Handle("snippet-highlight", method, user, pk, NoData)

UserListRequest ==
    \E method \in Methods, user \in Requesters :
        Handle("user-list", method, user, 0, NoData)

UserDetailRequest ==
    \E method \in Methods, user \in Requesters, pk \in UserPks :
        Handle("user-detail", method, user, pk, NoData)

\* The lists of valid payloads a many=True serializer is given.
PayloadLists == UNION {[1..n -> {FullData, MinimalData}] : n \in 1..MaxId}

\* A list of payloads deserialized with many=True and saved, with the owner
\* passed to save() from the authentication stage on.  Every payload is
\* valid, so is_valid() holds and save() runs.
DeserializeMany ==
    \E datas \in PayloadLists :
      \E owner \in (IF stage = 3 THEN {None} ELSE users) :
        LET rows == ListSerializerCreate(
                        [i \in 1..Len(datas) |-> validated_data(datas[i])], owner)
        IN  /\ request = NoRequest
            /\ \A i \in 1..Len(datas) : SerializerErrors(datas[i], FALSE) = {}
            /\ nextId + Len(datas) <= MaxId + 1
            /\ request' = [view |-> "ListSerializer", method |-> "save",
                           user |-> owner, pk |-> 0,
                           data |-> [items |-> datas]]
            /\ response' = [status |-> 0, data |-> rows, content_type |-> None]
            /\ before' = [snippets |-> snippets, users |-> users]
            /\ snippets' = snippets \cup {rows[i] : i \in 1..Len(rows)}
            /\ nextId' = nextId + Len(datas)
            /\ now' = now + Len(datas)
            /\ UNCHANGED <<inflight, stage, users>>

\* The response is sent and the worker takes the next request.
Respond ==
    /\ request # NoRequest
    /\ request' = NoRequest
    /\ response' = NoResponse
    /\ before' = NoBefore
    /\ UNCHANGED <<inflight, stage, users, snippets, nextId, now>>

-----------------------------------------------------------------------------
(* Stage 1: the function-based views over plain HTTP responses *)

\* The fall-through answered with the framework's 405.
MethodNotAllowed_405 ==
    [status |-> 405, data |-> "Method Not Allowed", snippets |-> snippets,
     nextId |-> nextId, now |-> now]

\* The fall-through of both views: a plain response, so status 200.
MethodNotAllowed == Reply(200, "Method Not Allowed")

\* snippet_list(request)
snippet_list(method, data) ==
    IF method = "GET" THEN Reply(200, SnippetListData(SnippetQueryset))
    ELSE IF method = "POST" THEN
        IF SerializerErrors(data, FALSE) # {} THEN
            Reply(400, SerializerErrors(data, FALSE))
        ELSE LET s == SerializerCreate(validated_data(data), None)
             IN  [status |-> 201, data |-> SnippetData(s),
                  snippets |-> snippets \cup {s}, nextId |-> nextId + 1,
                  now |-> now + 1]
    ELSE MethodNotAllowed

\* snippet_detail(request, pk): the answers the view can give.  The tests fix
\* 404 for GET, PUT and DELETE on an absent pk; for the other methods on an
\* absent pk either order of lookup and method match is possible.
snippet_detail(method, pk, data) ==
    IF get_object(pk) = {} THEN
        IF method \in {"GET", "PUT", "DELETE"} THEN {Reply(404, None)}
        ELSE {Reply(404, None), MethodNotAllowed}
    ELSE LET obj == CHOOSE s \in get_object(pk) : TRUE IN
    IF method = "GET" THEN {Reply(200, SnippetData(obj))}
    ELSE IF method = "PUT" THEN
        IF SerializerErrors(data, FALSE) # {} THEN
            {Reply(400, SerializerErrors(data, FALSE))}
        ELSE LET s == SerializerUpdate(obj, validated_data(data))
             IN  {[status |-> 200, data |-> SnippetData(s),
                   snippets |-> (snippets \ {obj}) \cup {s}, nextId |-> nextId,
                   now |-> now]}
    ELSE IF method = "DELETE" THEN
        {[status |-> 204, data |-> None, snippets |-> snippets \ {obj},
          nextId |-> nextId, now |-> now]}
    ELSE {MethodNotAllowed}

InitStage1 ==
    /\ stage = 1
    /\ users = {}
    /\ snippets = {}
    /\ nextId = 1
    /\ now = 1
    /\ request = NoRequest
    /\ response = NoResponse
    /\ before = NoBefore
    /\ inflight = {}

\* One request handled by a stage-1 view, r being the view's answer.
HandleStage1(view, method, pk, data, r) ==
    /\ request = NoRequest
    /\ r.nextId <= MaxId + 1
    /\ request' = [view |-> view, method |-> method, user |-> AnonymousUser,
                   pk |-> pk, data |-> data]
    /\ response' = [status |-> r.status, data |-> r.data, content_type |-> None]
    /\ before' = [snippets |-> snippets, users |-> users]
    /\ snippets' = r.snippets
    /\ nextId' = r.nextId
    /\ now' = r.now
    /\ UNCHANGED <<inflight, stage, users>>

SnippetListStage1 ==
    \E method \in Methods :
        \E data \in Bodies("snippet-list", method) :
            \E r \in {snippet_list(method, data)} :
                HandleStage1("snippet-list", method, 0, data, r)

SnippetDetailStage1 ==
    \E method \in Methods, pk \in Pks :
        \E data \in Bodies("snippet-detail", method) :
            \E r \in snippet_detail(method, pk, data) :
                HandleStage1("snippet-detail", method, pk, data, r)

NextStage1 ==
    \/ SnippetListStage1
    \/ SnippetDetailStage1
    \/ Respond

SpecStage1 == InitStage1 /\ [][NextStage1]_vars

-----------------------------------------------------------------------------

\* The owner foreign key without the cascade: the user's snippets stay.
DeleteUser_noCascade ==
    \E u \in users :
        /\ request = NoRequest
        /\ users' = users \ {u}
        /\ UNCHANGED <<inflight, stage, snippets, nextId, now, request, response, before>>

\* user.delete() through the ORM: the owner foreign key cascades.
DeleteUser ==
    \E u \in users :
        /\ request = NoRequest
        /\ users' = users \ {u}
        /\ snippets' = {s \in snippets : s.owner # u}
        /\ UNCHANGED <<inflight, stage, nextId, now, request, response, before>>

Next ==
    \/ SnippetListRequest
    \/ SnippetDetailRequest
    \/ SnippetHighlightRequest
    \/ UserListRequest
    \/ UserDetailRequest
    \/ DeserializeMany
    \/ Respond
    \/ DeleteUser

Spec == Init /\ [][Next]_vars

-----------------------------------------------------------------------------
(* The stage-5 views and the stage-6 viewsets side by side: every request is
   answered by the stage-5 views, then put to the stage-6 viewsets over the
   store it was sent to, and the run goes on from the store stage 5 left. *)

InitViewset ==
    /\ stage = 5
    /\ users = AllUsers
    /\ snippets = {}
    /\ nextId = 1
    /\ now = 1
    /\ request = NoRequest
    /\ response = NoResponse
    /\ before = NoBefore
    /\ inflight = {}

\* The request the stage-5 views have answered goes to the stage-6 viewsets:
\* the store is put back as the request found it, and the stage-5 answer and
\* the store it left are kept aside.
AskViewset ==
    /\ stage = 5
    /\ request # NoRequest
    /\ stage' = 6
    /\ before' = [snippets |-> snippets, users |-> users, response |-> response,
                  nextId |-> nextId, now |-> now]
    /\ snippets' = before.snippets
    /\ nextId' = IF response.status = 201 THEN nextId - 1 ELSE nextId
    /\ now' = IF response.status = 201 THEN now - 1 ELSE now
    /\ response' = NoResponse
    /\ UNCHANGED <<inflight, users, request>>

\* The stage-6 viewsets handle the request.
ViewsetAnswer ==
    LET r == dispatch(request.view, request.method, request.user, request.pk,
                      request.data) IN
    /\ stage = 6
    /\ response.status = 0
    /\ response' = [status |-> r.status, data |-> r.data,
                    content_type |-> renderer_classes(request.view)]
    /\ snippets' = r.snippets
    /\ nextId' = r.nextId
    /\ now' = r.now
    /\ UNCHANGED <<inflight, stage, users, request, before>>

\* Both have answered: the run goes on in stage 5 from the store it left.
ViewsetDone ==
    /\ stage = 6
    /\ response.status # 0
    /\ stage' = 5
    /\ snippets' = before.snippets
    /\ nextId' = before.nextId
    /\ now' = before.now
    /\ request' = NoRequest
    /\ response' = NoResponse
    /\ before' = NoBefore
    /\ UNCHANGED <<inflight, users>>

NextViewset ==
    \/ SnippetListRequest
    \/ SnippetDetailRequest
    \/ SnippetHighlightRequest
    \/ UserListRequest
    \/ UserDetailRequest
    \/ AskViewset
    \/ ViewsetAnswer
    \/ ViewsetDone

SpecViewset == InitViewset /\ [][NextViewset]_vars

-----------------------------------------------------------------------------
(* Two workers: one handles whole requests, the other is followed through an
   update, from get_object() to serializer.save() *)

\* One stored snippet and its owner.
InitConcurrent ==
    /\ stage \in {4, 5, 6}
    /\ users = AllUsers
    /\ nextId = 2
    /\ now = 2
    /\ snippets = {[SerializerCreate(validated_data(FullData), "u1")
                      EXCEPT !.id = 1, !.created = 1]}
    /\ request = NoRequest
    /\ response = NoResponse
    /\ before = NoBefore
    /\ inflight = {}

\* UpdateModelMixin.update, first half: the request passed the view's
\* permission check, get_object() found the row and the object permission
\* check passed; the worker holds the instance.
UpdateLookup ==
    \E method \in {"PUT", "PATCH"}, user \in Requesters, pk \in Pks :
      \E data \in Bodies("snippet-detail", method), obj \in get_object(pk) :
        /\ inflight = {}
        /\ check_permissions("snippet-detail", method, user)
        /\ check_object_permissions("snippet-detail", method, user, obj)
        /\ inflight' = {[method |-> method, user |-> user, data |-> data,
                         instance |-> obj]}
        /\ UNCHANGED <<stage, users, snippets, nextId, now, request, response,
                       before>>

\* UpdateModelMixin.update, second half: is_valid(), then serializer.save().
\* Model.save() of an instance with a pk updates the row with that pk and,
\* when no row has it any more, inserts the instance.
UpdateSave ==
    \E w \in inflight :
        LET errors == SerializerErrors(w.data, w.method = "PATCH")
            s == SerializerUpdate(w.instance, validated_data(w.data))
        IN  /\ snippets' = IF errors # {} THEN snippets
                           ELSE {o \in snippets : o.id # s.id} \cup {s}
            /\ inflight' = {}
            /\ UNCHANGED <<stage, users, nextId, now, request, response, before>>

NextConcurrent ==
    \/ SnippetDetailRequest
    \/ Respond
    \/ UpdateLookup
    \/ UpdateSave

SpecConcurrent == InitConcurrent /\ [][NextConcurrent]_vars

-----------------------------------------------------------------------------
(* A store that holds a snippet saved without an owner *)

\* Two stored snippets: the first without an owner (the owner column is
\* nullable), the second owned by a user.
InitOwnerless ==
    /\ stage \in {4, 5, 6}
    /\ users = AllUsers
    /\ nextId = 3
    /\ now = 3
    /\ \E d1 \in {FullData, MinimalData}, d2 \in {FullData, MinimalData} :
         snippets =
           {[SerializerCreate(validated_data(d1), None)
                EXCEPT !.id = 1, !.created = 1],
            [SerializerCreate(validated_data(d2), "u1")
                EXCEPT !.id = 2, !.created = 2]}
    /\ request = NoRequest
    /\ response = NoResponse
    /\ before = NoBefore
    /\ inflight = {}

NextOwnerless ==
    \/ SnippetDetailRequest
    \/ Respond

SpecOwnerless == InitOwnerless /\ [][NextOwnerless]_vars

-----------------------------------------------------------------------------
(* IsOwnerOrReadOnly.has_object_permission on its own *)

\* Every method a request can carry.
HttpMethods == Methods \cup SAFE_METHODS

\* One stored snippet, owned by either user or by nobody.
InitPermission ==
    /\ stage \in {4, 5, 6}
    /\ users = AllUsers
    /\ nextId = 2
    /\ now = 2
    /\ \E owner \in AllUsers \cup {None}, data \in {FullData, MinimalData} :
         snippets = {[SerializerCreate(validated_data(data), owner)
                        EXCEPT !.id = 1, !.created = 1]}
    /\ request = NoRequest
    /\ response = NoResponse
    /\ before = NoBefore
    /\ inflight = {}

\* The permission is asked for one method, requester and snippet.
CheckObjectPermission ==
    \E method \in HttpMethods, user \in Requesters, obj \in snippets :
        /\ request = NoRequest
        /\ request' = [view |-> "IsOwnerOrReadOnly", method |-> method,
                       user |-> user, pk |-> obj.id, data |-> NoData]
        /\ response' = [status |-> 0,
                        data |-> has_object_permission(method, user, obj),
                        content_type |-> None]
        /\ before' = [snippets |-> snippets, users |-> users]
        /\ UNCHANGED <<inflight, stage, users, snippets, nextId, now>>

NextPermission ==
    \/ CheckObjectPermission
    \/ Respond

SpecPermission == InitPermission /\ [][NextPermission]_vars

-----------------------------------------------------------------------------
(* Vocabulary of the properties: the request handled last, the row it      *)
(* names as it was stored when the request arrived, and who sent it.       *)

OnList == request.view = "snippet-list"
OnDetail == request.view = "snippet-detail"
Authenticated == request.user # AnonymousUser
Target == {s \in before.snippets : s.id = request.pk}
StoredNow == {s \in snippets : s.id = request.pk}
SnippetsUnchanged == snippets = before.snippets
StoresUnchanged == snippets = before.snippets /\ users = before.users
LacksCode == "code" \notin DOMAIN request.data
\* The entries of a list response (inside the page envelope from stage 5 on).
ListItems == IF stage >= 5 THEN response.data.results ELSE response.data

\* C1: from the authentication stage on, a PUT, PATCH or DELETE on the detail
\* endpoint of a stored snippet by an authenticated user who is not its owner
\* is answered 403 and the snippet store is as it was.
C1_NonOwnerWriteDenied ==
    (/\ stage >= 4
     /\ OnDetail
     /\ request.method \in {"PUT", "PATCH", "DELETE"}
     /\ Authenticated
     /\ \E s \in Target : s.owner # request.user)
    => (response.status = 403 /\ SnippetsUnchanged)

C1_Witness ==
    /\ stage >= 4 /\ OnDetail /\ request.method = "PUT" /\ request.data = FullData
    /\ Authenticated
    /\ \E s \in Target : s.owner # request.user
    /\ response.status = 403
    /\ snippets # {}

\* C2: from the authentication stage on, an unauthenticated POST on the
\* snippet list, or PUT, PATCH or DELETE on a snippet detail, is answered 403
\* and the snippet store (number and content) is as it was.
C2_UnauthenticatedWriteDenied ==
    (/\ stage >= 4
     /\ ~Authenticated
     /\ \/ OnList /\ request.method = "POST"
        \/ OnDetail /\ request.method \in {"PUT", "PATCH", "DELETE"})
    => (response.status = 403 /\ SnippetsUnchanged)

C2_Witness ==
    /\ stage >= 4 /\ ~Authenticated
    /\ OnList /\ request.method = "POST" /\ request.data = MinimalData
    /\ response.status = 403
    /\ snippets # {}

C4_CreateSetsOwner ==
    (/\ stage >= 4 /\ OnList /\ request.method = "POST" /\ Authenticated
     /\ response.status = 201)
    => /\ Cardinality(snippets) = Cardinality(before.snippets) + 1
       /\ before.snippets \subseteq snippets
       /\ \A s \in snippets \ before.snippets :
            /\ s.owner = request.user
            /\ response.data.id = s.id
            /\ response.data.owner = username(request.user)

C4_Witness ==
    /\ stage >= 4 /\ OnList /\ request.method = "POST"
    /\ request.user = "u1" /\ request.data = OwnerData
    /\ response.status = 201
    /\ \E s \in snippets \ before.snippets : s.owner = "u1"

\* C5: whatever creates, updates and deletes came before, a listing of the
\* snippets puts a snippet created earlier (it got the smaller identifier)
\* before one created later.
C5_ListOrderedByCreation ==
    (OnList /\ request.method = "GET" /\ response.status = 200)
    => \A i, j \in 1..Len(ListItems) : i < j => ListItems[i].id < ListItems[j].id

\* The listing has two entries that an ordering by title would swap.
C5_Witness ==
    /\ OnList /\ request.method = "GET" /\ response.status = 200
    /\ Len(ListItems) = 2
    /\ ListItems[1].title = "" /\ ListItems[2].title = "T"

\* Whether the requester passes the permission checks of a write: anyone in
\* stage 3, which has none; later an authenticated user and, on a detail
\* endpoint, the stored snippet's owner.
MayCreate == stage = 3 \/ Authenticated
MayWriteTarget == stage = 3 \/ (Authenticated /\ \A s \in Target : s.owner = request.user)

\* C6 as stated: a POST on the snippet list, or a PUT on the detail endpoint
\* of a stored snippet, whose data lacks "code" is answered 400 with an error
\* keyed "code", and the snippet store is as it was.
C6_MissingCodeRejected_AsStated ==
    (/\ LacksCode
     /\ \/ OnList /\ request.method = "POST"
        \/ OnDetail /\ request.method = "PUT" /\ Target # {})
    => /\ response.status = 400
       /\ "code" \in DOMAIN response.data
       /\ SnippetsUnchanged

\* C6, amended: the same for a requester who passes the permission checks
\* (for every other requester the answer is 403); for every requester the
\* snippet store is as it was.
C6_MissingCodeRejected ==
    (/\ LacksCode
     /\ \/ OnList /\ request.method = "POST"
        \/ OnDetail /\ request.method = "PUT" /\ Target # {})
    => /\ SnippetsUnchanged
       /\ IF (OnList /\ MayCreate) \/ (OnDetail /\ MayWriteTarget)
          THEN response.status = 400 /\ "code" \in DOMAIN response.data
          ELSE response.status = 403

C6_Witness ==
    /\ stage >= 4 /\ OnDetail /\ request.method = "PUT" /\ LacksCode
    /\ Target # {} /\ MayWriteTarget
    /\ response.status = 400
    /\ snippets = before.snippets

\* C7 as stated: a GET, PUT or DELETE on the detail endpoint of an identifier
\* that is not stored, and a GET on a user detail or a snippet highlight
\* endpoint of an identifier that is not stored, is answered 404 and both
\* stores are as they were.
C7_MissingIs404_AsStated ==
    (\/ OnDetail /\ request.method \in {"GET", "PUT", "DELETE"} /\ Target = {}
     \/ /\ request.view = "snippet-highlight" /\ request.method = "GET"
        /\ Target = {}
     \/ /\ request.view = "user-detail" /\ request.method = "GET"
        /\ \A u \in before.users : user_pk(u) # request.pk)
    => (response.status = 404 /\ StoresUnchanged)

\* C7, amended: the same where the PUT or DELETE comes from a requester who
\* passes the view-level permission check (anyone in stage 3, an
\* authenticated user later); an unauthenticated PUT or DELETE is answered
\* 403.  Both stores are as they were in every case.
C7_MissingIs404 ==
    (\/ OnDetail /\ request.method \in {"GET", "PUT", "DELETE"} /\ Target = {}
     \/ /\ request.view = "snippet-highlight" /\ request.method = "GET"
        /\ Target = {}
     \/ /\ request.view = "user-detail" /\ request.method = "GET"
        /\ \A u \in before.users : user_pk(u) # request.pk)
    => /\ StoresUnchanged
       /\ IF request.method = "GET" \/ MayCreate
          THEN response.status = 404
          ELSE response.status = 403

C7_Witness ==
    /\ stage >= 4 /\ OnDetail /\ request.method = "PUT" /\ request.data = FullData
    /\ Authenticated /\ Target = {} /\ snippets # {}
    /\ response.status = 404

\* C8 as stated: a request with a method the endpoint has no handler for
\* (PUT, PATCH or DELETE on the snippet list, POST on a snippet detail) is
\* answered 405 and both stores are as they were.
C8_UnsupportedIs405_AsStated ==
    (\/ OnList /\ request.method \in {"PUT", "PATCH", "DELETE"}
     \/ OnDetail /\ request.method = "POST")
    => (response.status = 405 /\ StoresUnchanged)

\* C8, amended: the same for a requester who passes the view-level
\* permission check (anyone in stage 3, an authenticated user later); an
\* unauthenticated one is answered 403.  Both stores are as they were.
C8_UnsupportedIs405 ==
    (\/ OnList /\ request.method \in {"PUT", "PATCH", "DELETE"}
     \/ OnDetail /\ request.method = "POST")
    => /\ StoresUnchanged
       /\ IF MayCreate THEN response.status = 405 ELSE response.status = 403

C8_Witness ==
    /\ stage >= 4 /\ OnList /\ request.method = "DELETE" /\ Authenticated
    /\ response.status = 405
    /\ snippets # {}

\* C9: a DELETE on the detail endpoint of a stored snippet s by its owner (by
\* anyone in stage 3, where snippets have no owner) is answered 204, s is no
\* longer stored, the count is one less and every other snippet is as it was.
C9_OwnerDeleteRemovesExactlyOne ==
    (OnDetail /\ request.method = "DELETE" /\ Target # {} /\ MayWriteTarget)
    => /\ response.status = 204
       /\ snippets = before.snippets \ Target
       /\ Cardinality(snippets) = Cardinality(before.snippets) - 1
       /\ StoredNow = {}

C9_Witness ==
    /\ stage >= 4 /\ OnDetail /\ request.method = "DELETE"
    /\ \E s \in Target : s.owner = request.user
    /\ response.status = 204
    /\ snippets # {}

\* The payloads that pass validation as a full update.
ValidPayloads == {FullData, MinimalData, OwnerData}

\* C10: a PUT with valid data on the detail endpoint of a stored snippet by
\* its owner (by anyone in stage 3) is answered 200; the response and the
\* snippet then stored under that identifier carry the payload's value for
\* every field of the snippet the payload gives, and no other snippet changes.
C10_OwnerPutStoresPayload ==
    (/\ OnDetail /\ request.method = "PUT" /\ Target # {} /\ MayWriteTarget
     /\ request.data \in ValidPayloads)
    => /\ response.status = 200
       /\ Cardinality(StoredNow) = 1
       /\ snippets \ StoredNow = before.snippets \ Target
       /\ \A s \in StoredNow : \A f \in (DOMAIN request.data) \cap WritableFields :
            /\ s[f] = request.data[f]
            /\ response.data[f] = request.data[f]

\* The PUT changed the stored values.
C10_Witness ==
    /\ stage >= 4 /\ OnDetail /\ request.method = "PUT" /\ request.data = FullData
    /\ \E s \in Target : s.owner = request.user /\ s.code = "c1" /\ s.title = ""
    /\ response.status = 200
    /\ \E s \in StoredNow : s.code = "c2" /\ s.title = "T"

\* C11: from the authentication stage on, every stored snippet is owned by a
\* stored user: deleting a user takes the snippets that user owns along.
C11_NoSnippetOfDeletedUser ==
    stage >= 4 => \A s \in snippets : s.owner \in users

\* A user was deleted after both identifiers were handed out, and the one
\* snippet left belongs to the user who is left.
C11_Witness ==
    /\ stage >= 4 /\ users = {"u2"} /\ request = NoRequest
    /\ nextId = 3
    /\ \E s \in snippets : snippets = {s} /\ s.owner = "u2" /\ s.id = 2

\* The value a field takes when the payload does not give it.
DefaultOf(f) ==
    IF f = "title" THEN ""
    ELSE IF f = "linenos" THEN FALSE
    ELSE IF f = "language" THEN "python"
    ELSE "friendly"

\* C12: the snippet a POST creates has, for each of title, linenos, language
\* and style, the payload's value where the payload gives one and otherwise
\* the default ("", false, "python", "friendly"); its code is the payload's
\* and its created timestamp is set.
C12_CreateFillsDefaults ==
    (OnList /\ request.method = "POST" /\ response.status = 201)
    => /\ snippets # before.snippets
       /\ \A s \in snippets \ before.snippets :
            /\ s.code = request.data.code
            /\ s.created >= 1
            /\ \A f \in {"title", "linenos", "language", "style"} :
                 s[f] = IF f \in DOMAIN request.data THEN request.data[f]
                        ELSE DefaultOf(f)

\* Both cases were stored: one snippet from the code-only payload and one
\* from the payload that gives every field.
C12_Witness ==
    /\ OnList /\ request.method = "POST" /\ request.data = MinimalData
    /\ response.status = 201
    /\ \E s \in snippets \ before.snippets :
         s.title = "" /\ s.linenos = FALSE /\ s.language = "python"
         /\ s.style = "friendly"
    /\ \E s \in before.snippets : s.title = "T" /\ s.style = "monokai"

OnUsers == request.view \in {"user-list", "user-detail"}

\* C13: a POST, PUT, PATCH or DELETE on the user list or on a user detail is
\* answered 405 whoever sends it, and no request changes the user store.
C13_UsersReadOnly ==
    /\ (OnUsers /\ request.method \in {"POST", "PUT", "PATCH", "DELETE"})
        => response.status = 405
    /\ request # NoRequest => users = before.users

C13_Witness ==
    /\ request.view = "user-detail" /\ request.method = "PUT"
    /\ ~Authenticated /\ request.pk = 1 /\ "u1" \in users
    /\ response.status = 405

\* How the snippets field names a snippet: its primary key in stage 4, the
\* link to its detail endpoint later.
SnippetRef(s) == IF stage = 4 THEN s.id ELSE <<"snippet-detail", s.id>>

\* C14: the snippets field of a serialized user names exactly the stored
\* snippets that user owns, each once; so does the field in the answer to a
\* GET on the user's detail endpoint.
C14_UserSnippetsAreOwn ==
    stage >= 4 =>
      /\ \A u \in users :
           LET field == UserData(u).snippets
               own == {s \in snippets : s.owner = u}
           IN  /\ {field[i] : i \in 1..Len(field)} = {SnippetRef(s) : s \in own}
               /\ Len(field) = Cardinality(own)
      /\ (request.view = "user-detail" /\ request.method = "GET"
          /\ response.status = 200)
          => \A u \in users : user_pk(u) = request.pk =>
               {response.data.snippets[i] : i \in 1..Len(response.data.snippets)}
                 = {SnippetRef(s) : s \in {x \in snippets : x.owner = u}}

\* Each user owns a snippet and the answer lists one of the two.
C14_Witness ==
    /\ stage >= 4 /\ request.view = "user-detail" /\ request.method = "GET"
    /\ request.pk = 1 /\ response.status = 200
    /\ Len(response.data.snippets) = 1
    /\ \E s \in snippets : s.owner = "u2"

\* C15: from the stage that adds the field on, the highlighted value of every
\* stored snippet is the rendering of the code, language and style it is
\* stored with, whatever a payload carried under "highlighted".
C15_HighlightedFollowsSave ==
    stage >= 4 =>
      \A s \in snippets :
        /\ s.highlighted = <<"html", s.code, s.language, s.style>>
        /\ s.highlighted # HighlightedData.highlighted

\* The owner replaced the code of a snippet with a payload that also carried
\* a highlighted value, and the update was accepted.
C15_Witness ==
    /\ stage >= 4 /\ OnDetail /\ request.method = "PUT"
    /\ request.data = HighlightedData /\ response.status = 200
    /\ \E o \in before.snippets : o.id = request.pk /\ o.code = "c2"
    /\ \E s \in snippets : s.id = request.pk /\ s.code = "c1"
                           /\ s.language = "javascript"

\* C16: a GET on the highlight endpoint is answered as text/html, whoever
\* sends it: 200 with the stored highlighted value of the snippet when the
\* identifier is stored, 404 when it is not.
C16_HighlightEndpoint ==
    (request.view = "snippet-highlight" /\ request.method = "GET")
    => /\ response.content_type = "text/html"
       /\ SnippetsUnchanged
       /\ \A s \in snippets : s.id = request.pk =>
            response.status = 200 /\ response.data = s.highlighted
       /\ (\A s \in snippets : s.id # request.pk) => response.status = 404

\* An anonymous client read the highlight of a stored snippet.
C16_Witness ==
    /\ request.view = "snippet-highlight" /\ request.method = "GET"
    /\ ~Authenticated /\ response.status = 200
    /\ \E s \in snippets : s.id = request.pk /\ s.code = "c2"
                           /\ response.data = <<"html", "c2", "javascript", "monokai">>

\* C17: no two stored snippets share an identifier, and the identifier in the
\* answer to a create is a new one under which exactly the created snippet
\* is stored and retrieved.
C17_IdsUnique ==
    /\ \A s, o \in snippets : s.id = o.id => s = o
    /\ (OnList /\ request.method = "POST" /\ response.status = 201)
        => /\ \A o \in before.snippets : o.id # response.data.id
           /\ Cardinality(snippets \ before.snippets) = 1
           /\ get_object(response.data.id) = snippets \ before.snippets
           /\ \A s \in get_object(response.data.id) :
                SnippetData(s) = response.data

\* A create after the first snippet was deleted: the store holds fewer
\* snippets than identifiers were handed out.
C17_Witness ==
    /\ OnList /\ request.method = "POST" /\ response.status = 201
    /\ before.snippets = {} /\ response.data.id = 2
    /\ Cardinality(snippets) = 1

\* C18: in stage 1 a DELETE on the snippet list and a PATCH on the detail of
\* a stored snippet are answered with status 200 and the body
\* "Method Not Allowed", and store nothing.
C18_Stage1MethodNotAllowed ==
    (stage = 1 /\ (\/ OnList /\ request.method = "DELETE"
                   \/ OnDetail /\ request.method = "PATCH" /\ Target # {}))
    => /\ response.status = 200
       /\ response.data = "Method Not Allowed"
       /\ SnippetsUnchanged

\* A PATCH sent to the detail endpoint of the second snippet created.
C18_Witness ==
    /\ stage = 1 /\ OnDetail /\ request.method = "PATCH" /\ request.pk = 2
    /\ \E s \in snippets : s.id = 2 /\ s.code = "c2"
    /\ response.data = "Method Not Allowed"

\* C19: saving a list of n valid payloads deserialized with many=True returns
\* n snippets, the i-th built from the i-th payload, all of them new rows of
\* the store, which grows by exactly n.
C19_ManyCreatesInOrder ==
    request.view = "ListSerializer" =>
      LET items == request.data.items
          n == Len(items) IN
      /\ Len(response.data) = n
      /\ \A i \in 1..n :
           /\ response.data[i].code = items[i].code
           /\ response.data[i].title =
                IF "title" \in DOMAIN items[i] THEN items[i].title ELSE ""
      /\ {response.data[i] : i \in 1..n} = snippets \ before.snippets
      /\ before.snippets \subseteq snippets
      /\ Cardinality(snippets) = Cardinality(before.snippets) + n

\* Two different payloads were saved in one call on top of nothing stored.
C19_Witness ==
    /\ request.view = "ListSerializer"
    /\ request.data.items = <<FullData, MinimalData>>
    /\ Cardinality(snippets) = 2
    /\ response.data[1].code = "c2" /\ response.data[2].code = "c1"

\* C20: has_object_permission answers true exactly when the method is GET,
\* HEAD or OPTIONS or the snippet's owner is the requester, and false for
\* every other method, requester and snippet.
C20_OwnerOrReadOnly ==
    request.view = "IsOwnerOrReadOnly" =>
      \A obj \in snippets :
        response.data = (\/ request.method \in {"GET", "HEAD", "OPTIONS"}
                         \/ obj.owner = request.user)

\* A write from an anonymous requester on a snippet that has no owner.
C20_Witness ==
    /\ request.view = "IsOwnerOrReadOnly"
    /\ request.method = "DELETE" /\ request.user = AnonymousUser
    /\ \E obj \in snippets : obj.owner = None
    /\ response.data = FALSE

ErrorStatuses == {400, 403, 404, 405}

\* C21: a request answered with 400, 403, 404 or 405 leaves the snippet
\* store and the user store as they were before it.
C21_ErrorsChangeNothing ==
    (request # NoRequest /\ response.status \in ErrorStatuses)
    => /\ snippets = before.snippets
       /\ users = before.users

\* The owner's PUT with a language outside the choices, on a snippet stored
\* with other values than the payload's, was answered 400.
C21_Witness ==
    /\ stage >= 4 /\ OnDetail /\ request.method = "PUT"
    /\ request.data = BadChoiceData /\ response.status = 400
    /\ \E s \in snippets : s.id = request.pk /\ s.owner = request.user
                           /\ s.code = "c2"

\* C22: a request leaves every snippet that stays stored with the owner it
\* had; ids are never handed out twice, so the owner a snippet is created
\* with is its owner for as long as it is stored.
C22_OwnerNeverChanges ==
    request # NoRequest =>
      \A s \in before.snippets : \A o \in snippets :
        s.id = o.id => o.owner = s.owner

\* The owner's PUT carrying another user's name under "owner" was accepted.
C22_Witness ==
    /\ stage >= 4 /\ OnDetail /\ request.method = "PUT"
    /\ request.data = OwnerData /\ request.user = "u1"
    /\ response.status = 200
    /\ \E s \in snippets : s.id = request.pk /\ s.owner = "u1"
    /\ response.data.owner = "user1"

\* C23: from the authentication stage on a write to a snippet endpoint is
\* checked in the order authentication, lookup, ownership, validation: the
\* first check that fails decides the status.
C23_CheckOrder ==
    (stage >= 4 /\ (\/ OnList /\ request.method = "POST"
                    \/ OnDetail /\ request.method \in {"PUT", "PATCH", "DELETE"}))
    => LET invalid == request.method # "DELETE"
                      /\ SerializerErrors(request.data, request.method = "PATCH") # {}
       IN  response.status =
             IF ~Authenticated THEN 403
             ELSE IF OnDetail /\ Target = {} THEN 404
             ELSE IF OnDetail /\ \E s \in Target : s.owner # request.user THEN 403
             ELSE IF invalid THEN 400
             ELSE IF request.method = "POST" THEN 201
             ELSE IF request.method = "DELETE" THEN 204
             ELSE 200

\* An unauthenticated PUT with invalid data on an identifier that is not
\* stored, while other snippets are: 403, neither 404 nor 400.
C23_Witness ==
    /\ stage >= 4 /\ OnDetail /\ request.method = "PUT" /\ ~Authenticated
    /\ request.data = BadChoiceData /\ Target = {} /\ snippets # {}
    /\ response.status = 403

\* C26: on the detail endpoint of a snippet stored without an owner every
\* PUT, PATCH and DELETE is answered 403, whoever sends it and whatever it
\* carries, and the snippet stays as it is; a GET is answered 200 with it.
C26_OwnerlessIsReadOnly ==
    (stage >= 4 /\ OnDetail /\ \E s \in Target : s.owner = None)
    => /\ request.method \in {"PUT", "PATCH", "DELETE"}
            => response.status = 403 /\ SnippetsUnchanged
       /\ request.method = "GET"
            => /\ response.status = 200
               /\ \A s \in Target : response.data = SnippetData(s)
       /\ \A s \in Target : s \in snippets

\* An authenticated user's DELETE on the ownerless snippet was denied.
C26_Witness ==
    /\ stage >= 4 /\ OnDetail /\ request.method = "DELETE"
    /\ request.user = "u1" /\ request.pk = 1
    /\ \E s \in snippets : s.id = 1 /\ s.owner = None
    /\ response.status = 403

\* C27: the answer to a GET does not depend on who sends it: in the store
\* the GET was answered from, which a GET leaves as it is, the same GET from
\* any other requester, anonymous or not, gets the same status and data.
C27_ReadsIgnoreRequester ==
    (stage >= 4 /\ request.method = "GET")
    => /\ StoresUnchanged
       /\ \A u \in Requesters :
            LET r == dispatch(request.view, "GET", u, request.pk, NoData)
            IN  r.status = response.status /\ r.data = response.data

\* The anonymous requester read a snippet that a stored user owns, while
\* another user is stored too.
C27_Witness ==
    /\ stage >= 4 /\ OnDetail /\ request.method = "GET" /\ ~Authenticated
    /\ response.status = 200 /\ users = AllUsers
    /\ \E s \in snippets : s.id = request.pk /\ s.owner = "u1"

\* C28: after a PUT answered 200, the same PUT from the same requester is
\* answered 200 with the same data and leaves the store, the id sequence and
\* the clock as the first one left them.
C28_PutIdempotent ==
    (OnDetail /\ request.method = "PUT" /\ response.status = 200)
    => LET r == dispatch(request.view, request.method, request.user,
                         request.pk, request.data)
       IN  /\ r.status = 200
           /\ r.data = response.data
           /\ r.snippets = snippets
           /\ r.nextId = nextId /\ r.now = now

\* The first of the two: the owner's PUT changed the stored snippet.
C28_Witness ==
    /\ stage >= 4 /\ OnDetail /\ request.method = "PUT"
    /\ request.data = MinimalData /\ response.status = 200
    /\ \E o \in before.snippets : o.id = request.pk /\ o.code = "c2"
                                  /\ o.owner = request.user
    /\ snippets # before.snippets

\* Both deployments have answered the request.
BothAnswered == stage = 6 /\ response.status # 0

\* What the stage-6 viewsets left equals what the stage-5 views left.
SameStoreChange ==
    /\ snippets = before.snippets
    /\ nextId = before.nextId
    /\ now = before.now

\* C25 as stated: for every store, requester, endpoint and method the
\* stage-6 viewsets answer with the status the stage-5 views answer with and
\* make the same change to the store.
C25_ViewsetEquivalent_AsStated ==
    BothAnswered =>
      /\ response.status = before.response.status
      /\ SameStoreChange

\* The one case the two differ in: an unsafe method sent to the highlight
\* endpoint by an unauthenticated requester.
UnsafeAnonymousOnHighlight ==
    /\ request.view = "snippet-highlight"
    /\ request.method \notin SAFE_METHODS
    /\ request.user = AnonymousUser

\* C25, amended: the two make the same change to the store in every case and
\* answer with the same status and data in every case but one: an unsafe
\* method on the highlight endpoint from an unauthenticated requester is
\* answered 405 by the stage-5 view and 403 by the stage-6 viewset.  An
\* authenticated user's valid POST on the list is answered 201 by both.
C25_ViewsetEquivalent ==
    BothAnswered =>
      /\ SameStoreChange
      /\ IF UnsafeAnonymousOnHighlight
         THEN before.response.status = 405 /\ response.status = 403
         ELSE /\ response.status = before.response.status
              /\ response.data = before.response.data
              /\ response.content_type = before.response.content_type
      /\ (request.view = "snippet-list" /\ request.method = "POST"
          /\ request.user # AnonymousUser
          /\ SerializerErrors(request.data, FALSE) = {})
          => response.status = 201

\* An authenticated user's create was accepted by both, on top of a snippet
\* another user owns.
C25_Witness ==
    /\ BothAnswered
    /\ request.view = "snippet-list" /\ request.method = "POST"
    /\ request.user = "u2"
    /\ response.status = 201 /\ before.response.status = 201
    /\ \E s \in snippets : s.owner = "u1"
    /\ \E s \in snippets : s.owner = "u2" /\ s.id = 2

\* C24: while the 204 to a DELETE is the worker's answer, no snippet with the
\* deleted identifier is stored, whatever the other worker does with an
\* update of the same snippet it looked up before the delete.
C24_DeletedStaysAbsent ==
    (OnDetail /\ request.method = "DELETE" /\ response.status = 204)
    => \A s \in snippets : s.id # request.pk

====
